---- MODULE Spec2Model ----
(***************************************************************************)
(* Model of src/dashboard.py, the Streamlit "Critical Alarms Dashboard".   *)
(*                                                                         *)
(* The script is re-executed top to bottom on every trigger (session open, *)
(* auto-refresh timer, change of the severity multiselect, click on        *)
(* "Reload Data").  One action models one whole script run.  The state is  *)
(* the spreadsheet on disk, the st.cache_data entry of load_data, the      *)
(* widget state, and what the last run computed and rendered.              *)
(*                                                                         *)
(* Strings that the code transforms character by character (the severity   *)
(* column, through str.lower) are sequences of ASCII codes.  Epoch         *)
(* milliseconds are plain integers; the sample rows lie within 24 days of  *)
(* the epoch so that they fit TLC's 32-bit integers, on both sides of a    *)
(* month boundary (1969-12 / 1970-01) and of a day boundary.               *)
(***************************************************************************)
EXTENDS Integers, Sequences, FiniteSets, TLC

\* Largest number of rows the spreadsheet holds.
MaxRows == 3

----------------------------------------------------------------------------
\* Cell values as pandas reads them from the sheet.
Number(n) == [kind |-> "number", val |-> n]
Text(s) == [kind |-> "text", val |-> s]
Blank == [kind |-> "blank"]

\* Values of a datetime64 column.
Timestamp(ms) == [kind |-> "Timestamp", ms |-> ms]
NaT == [kind |-> "NaT"]

\* Values of a float64 result.
Num(n) == [kind |-> "num", val |-> n]
NaN == [kind |-> "nan"]

\* The options of the severity multiselect, as ASCII codes.
critical == <<99, 114, 105, 116, 105, 99, 97, 108>>
major == <<109, 97, 106, 111, 114>>
minor == <<109, 105, 110, 111, 114>>
Severities == {critical, major, minor}

\* Spellings found in the sheet: "Critical", "CRITICAL", "Major", "warning".
Critical_Title == <<67, 114, 105, 116, 105, 99, 97, 108>>
CRITICAL_Upper == <<67, 82, 73, 84, 73, 67, 65, 76>>
Major_Title == <<77, 97, 106, 111, 114>>
warning == <<119, 97, 114, 110, 105, 110, 103>>

\* A spreadsheet row.
Row(site, sev, n, first, last) ==
    [neName |-> site, severity |-> sev, numberOfOccurrences |-> n,
     firstTimeDetected |-> first, lastTimeDetected |-> last]

\* The alarms the exporter writes, in the order it appends them to the
\* sheet.  345600000 ms = 1970-01-05, 432000000 ms = 1970-01-06, 86400000 ms
\* = 1970-01-02, 0 ms = 1970-01-01, -1 ms = 1969-12-31 23:59:59.999,
\* -86400000 ms = 1969-12-31.
AlarmLog ==
    << Row("A", critical, 5, Number(345600000), Number(345600000)),
       Row("B", critical, 5, Number(-1), Blank),
       Row("A", minor, 100, Number(432000000), Text("n/a")),
       Row("B", Critical_Title, 3, Number(0), Number(0)),
       Row("C", CRITICAL_Upper, 7, Number(-86400000), Blank),
       Row("C", Major_Title, 2, Blank, Number(0)),
       Row("A", warning, 4, Text("n/a"), Number(0)),
       Row("C", minor, 0, Number(86400000), Number(86400000)) >>

\* Position of a row in the log.
LogIndex(r) == CHOOSE i \in 1..Len(AlarmLog) : AlarmLog[i] = r

\* The rows of the log at the positions ids, in log order.
RECURSIVE RowsAt(_, _)
RowsAt(ids, from) ==
    IF from > Len(AlarmLog) THEN <<>>
    ELSE (IF from \in ids THEN <<AlarmLog[from]>> ELSE <<>>)
         \o RowsAt(ids, from + 1)

\* All sheets of at most n rows: any alarms of the log, in log order.
Sheets(n) ==
    { RowsAt(ids, 1) :
        ids \in { S \in SUBSET (1..Len(AlarmLog)) : Cardinality(S) <= n } }

----------------------------------------------------------------------------
\* pd.to_datetime(v, unit="ms", errors="coerce") on one cell.
to_datetime(v) == IF v.kind = "number" THEN Timestamp(v.val) ELSE NaT

\* pd.read_excel: the frame has the lastTimeDetected column only if the
\* sheet has it.
read_excel(sheet) ==
    IF sheet.hasLast
    THEN sheet.rows
    ELSE [i \in 1..Len(sheet.rows) |->
            [c \in {"neName", "severity", "numberOfOccurrences",
                    "firstTimeDetected"} |-> sheet.rows[i][c]]]

\* dropna without the subset: a row with any missing timestamp is dropped.
dropna_any(frame) ==
    SelectSeq(frame, LAMBDA r :
        \A c \in DOMAIN r \cap {"firstTimeDetected", "lastTimeDetected"} :
            r[c] # NaT)

\* df.dropna(subset=["firstTimeDetected"]).
dropna(frame) == SelectSeq(frame, LAMBDA r : r.firstTimeDetected # NaT)

\* The body of load_data.
load_data_body(sheet) ==
    LET raw == read_excel(sheet)
        conv1 == [i \in 1..Len(raw) |->
                    [raw[i] EXCEPT !.firstTimeDetected = to_datetime(@)]]
        conv2 == IF sheet.hasLast
                 THEN [i \in 1..Len(conv1) |->
                         [conv1[i] EXCEPT !.lastTimeDetected = to_datetime(@)]]
                 ELSE conv1
    IN  dropna(conv2)

\* A load that bypasses the memoized entry.
load_data_uncached(button, entry, sheet) ==
    [df |-> load_data_body(sheet), read |-> TRUE]

\* A load that runs after the button has cleared the cache.
load_data_after_clear(button, entry, sheet) ==
    IF entry # <<>> /\ ~button
    THEN [df |-> entry[1], read |-> FALSE]
    ELSE [df |-> load_data_body(sheet), read |-> TRUE]

\* df = load_data() at line 22, through @st.cache_data: a memoized entry is
\* returned without running the body (read tells whether pd.read_excel
\* ran).  The call precedes the "Reload Data" button of line 31, so the
\* button's value plays no part in it.
load_data(button, entry, sheet) ==
    IF entry # <<>>
    THEN [df |-> entry[1], read |-> FALSE]
    ELSE [df |-> load_data_body(sheet), read |-> TRUE]

\* if st.sidebar.button("Reload Data"): st.cache_data.clear() -- the cache
\* entry left behind by a run that loaded frame.
cache_after(button, frame) == IF button THEN <<>> ELSE <<frame>>

\* A comparison that forgets to lowercase.
lower_skipped(s) == s

\* str.lower on ASCII text.
lower(s) ==
    [i \in 1..Len(s) |-> IF s[i] >= 65 /\ s[i] <= 90 THEN s[i] + 32 ELSE s[i]]

\* df[df["severity"].str.lower().isin(severity_filter)], skipped when the
\* selection is empty.
filter_data(frame, selection) ==
    IF selection # {}
    THEN SelectSeq(frame, LAMBDA r : lower(r.severity) \in selection)
    ELSE frame

\* Series.sum() of a column of counts.
RECURSIVE sum(_)
sum(column) ==
    IF column = <<>> THEN 0 ELSE Head(column) + sum(Tail(column))

\* The numberOfOccurrences column of a frame.
Occurrences(frame) ==
    [i \in 1..Len(frame) |-> frame[i].numberOfOccurrences]

\* The group keys of groupby("neName").
Sites(frame) == { frame[i].neName : i \in 1..Len(frame) }

\* groupby(...).count() in place of sum().
groupby_count(frame) ==
    [site \in Sites(frame) |->
        Len(SelectSeq(frame, LAMBDA r : r.neName = site))]

\* groupby("neName")["numberOfOccurrences"].sum(): the series of totals,
\* indexed by site.
groupby_sum(frame) ==
    [site \in Sites(frame) |->
        sum(Occurrences(SelectSeq(frame, LAMBDA r : r.neName = site)))]

\* sort_values with the default ascending order.
sort_values_ascending(series) ==
    LET S == DOMAIN series
        n == Cardinality(S)
    IN  { [i \in 1..n |-> [neName |-> p[i], numberOfOccurrences |-> series[p[i]]]] :
            p \in { q \in [1..n -> S] :
                      /\ \A i, j \in 1..n : i # j => q[i] # q[j]
                      /\ \A i \in 1..(n - 1) : series[q[i]] <= series[q[i + 1]] } }

\* reset_index().sort_values(by="numberOfOccurrences", ascending=False): the
\* orders the sort may leave the groups in, any arrangement with
\* non-increasing totals (the default sort is not stable).
sort_values(series) ==
    LET S == DOMAIN series
        n == Cardinality(S)
    IN  { [i \in 1..n |-> [neName |-> p[i], numberOfOccurrences |-> series[p[i]]]] :
            p \in { q \in [1..n -> S] :
                      /\ \A i, j \in 1..n : i # j => q[i] # q[j]
                      /\ \A i \in 1..(n - 1) : series[q[i]] >= series[q[i + 1]] } }

\* site_criticals["numberOfOccurrences"].max() of a non-empty table.
max(table) ==
    CHOOSE m \in { table[i].numberOfOccurrences : i \in 1..Len(table) } :
        \A i \in 1..Len(table) : table[i].numberOfOccurrences <= m

\* Only the first row of the table is flagged.
top_sites_first(table) == <<table[1].neName>>

\* site_criticals[site_criticals["numberOfOccurrences"] == max_crit]
\* ["neName"].tolist().
top_sites_of(table) ==
    LET max_crit == max(table)
        rows == SelectSeq(table, LAMBDA r : r.numberOfOccurrences = max_crit)
    IN  [i \in 1..Len(rows) |-> rows[i].neName]

\* Membership in a list (x in top_sites).
InList(x, list) == \E i \in 1..Len(list) : list[i] = x

\* f"{x} [alarm sign]": the site name with the marker appended.
mark(x) == x \o " (!)"

\* df_display["neName"].apply(lambda x: mark if x in top_sites else x).
mark_rows(frame, tops) ==
    [i \in 1..Len(frame) |->
        [frame[i] EXCEPT !.neName = IF InList(@, tops) THEN mark(@) ELSE @]]

\* round(mean, 2), in hundredths; NaN for the mean of an empty column.
round_mean(total, n) ==
    IF n = 0 THEN NaN
    ELSE LET q == (100 * total) \div n
             r == (100 * total) % n
         IN  Num(IF 2 * r > n \/ (2 * r = n /\ q % 2 = 1) THEN q + 1 ELSE q)

\* The three summary cards.
summary(table) ==
    LET column == [i \in 1..Len(table) |-> table[i].numberOfOccurrences]
    IN  [col1 |-> sum(column),
         col2 |-> round_mean(sum(column), Len(table)),
         col3 |-> Len(table)]

\* Year and month of the day that holds an epoch-millisecond instant
\* (proleptic Gregorian calendar), as strftime("%Y-%m") prints them.
strftime_Ym(ts) ==
    LET days == ts.ms \div 86400000
        z == days + 719468
        era == z \div 146097
        doe == z - era * 146097
        yoe == (doe - doe \div 1460 + doe \div 36524 - doe \div 146096) \div 365
        doy == doe - (365 * yoe + yoe \div 4 - yoe \div 100)
        mp == (5 * doy + 2) \div 153
        m == IF mp < 10 THEN mp + 3 ELSE mp - 9
        y == yoe + era * 400 + (IF m <= 2 THEN 1 ELSE 0)
    IN  <<y, m>>

\* The (month, site) groups keeping the last count instead of the sum.
df_time_last(frame) ==
    LET key(r) == <<strftime_Ym(r.firstTimeDetected), r.neName>>
    IN  [k \in { key(frame[i]) : i \in 1..Len(frame) } |->
            LET rows == SelectSeq(frame, LAMBDA r : key(r) = k)
            IN  rows[Len(rows)].numberOfOccurrences]

\* groupby([Grouper(key="firstTimeDetected", freq="M"), "neName"]).sum() with
\* the month column: the totals of the (month, site) pairs that occur.
df_time_of(frame) ==
    LET key(r) == <<strftime_Ym(r.firstTimeDetected), r.neName>>
    IN  [k \in { key(frame[i]) : i \in 1..Len(frame) } |->
            sum(Occurrences(SelectSeq(frame, LAMBDA r : key(r) = k)))]

\* The matrix with its missing cells left as they are.
fillna_skipped(matrix) == matrix

\* DataFrame.fillna(0) on the matrix.
fillna(matrix) ==
    [matrix EXCEPT !.cell = [k \in DOMAIN matrix.cell |->
                               IF matrix.cell[k] = NaN THEN Num(0)
                               ELSE matrix.cell[k]]]

\* df_time.pivot(index="month", columns="neName", values=...).fillna(0).
pivot(groups) ==
    LET index == { k[1] : k \in DOMAIN groups }
        columns == { k[2] : k \in DOMAIN groups }
    IN  fillna([index |-> index, columns |-> columns,
                cell |-> [k \in index \X columns |->
                            IF k \in DOMAIN groups THEN Num(groups[k])
                            ELSE NaN]])

\* pivot_table.rename(columns={site: mark(site) for site in top_sites}).
rename(matrix, tops) ==
    LET new(c) == IF InList(c, tops) THEN mark(c) ELSE c
    IN  [index |-> matrix.index,
         columns |-> { new(c) : c \in matrix.columns },
         cell |-> [k \in matrix.index \X { new(c) : c \in matrix.columns } |->
                     LET c == CHOOSE c \in matrix.columns : new(c) = k[2]
                     IN  matrix.cell[<<k[1], c>>]]]

----------------------------------------------------------------------------
VARIABLES
    file,             \* streamlit_data.xlsx: [hasLast, rows]
    cache,            \* st.cache_data entry of load_data: <<>> or <<frame>>
    severity_filter,  \* the multiselect's selection
    clicked,          \* the value of the "Reload Data" button in the last run
    excel_read,       \* whether the last run executed pd.read_excel
    loaded,           \* df as returned by load_data() at line 22
    df,               \* df after the filter
    site_criticals,   \* the site-totals table
    top_sites,        \* the flagged sites (<<>> when not computed)
    df_display,       \* the record table with marked names
    metrics,          \* the three summary cards
    top_site,         \* <<first row>> when the call-out is shown
    next_site,        \* <<second row>> when the call-out is shown
    pivot_table,      \* the month x site matrix handed to the heatmap
    rendered          \* the elements the last run put on the page

vars == <<file, cache, severity_filter, clicked, excel_read, loaded, df,
          site_criticals, top_sites, df_display, metrics, top_site,
          next_site, pivot_table, rendered>>

\* The page elements every run emits, whatever the data.
always_rendered == {"metrics", "bar_chart", "heatmap"}

\* One execution of the script: button is the value of the "Reload Data"
\* button in this run, selection the value of the multiselect.
script(button, selection) ==
    LET call == load_data(button, cache, file)
        frame == call.df
        filtered == filter_data(frame, selection)
    IN  \E table \in sort_values(groupby_sum(filtered)) :
          LET empty == table = <<>>
              tops == IF empty THEN <<>> ELSE top_sites_of(table)
              matrix == pivot(df_time_of(filtered))
          IN  /\ excel_read' = call.read
              /\ loaded' = frame
              /\ clicked' = button
              /\ cache' = cache_after(button, frame)
              /\ severity_filter' = selection
              /\ df' = filtered
              /\ site_criticals' = table
              /\ top_sites' = tops
              /\ df_display' = IF empty THEN <<>> ELSE mark_rows(filtered, tops)
              /\ metrics' = summary(table)
              /\ top_site' = IF empty THEN <<>> ELSE <<table[1]>>
              /\ next_site' = IF Len(table) > 1 THEN <<table[2]>> ELSE <<>>
              /\ pivot_table' = IF empty THEN matrix ELSE rename(matrix, tops)
              /\ rendered' = always_rendered
                    \cup (IF empty THEN {"warning"} ELSE {"dataframe", "top_site"})
                    \cup (IF Len(table) > 1 THEN {"next_site"} ELSE {})
              /\ UNCHANGED file

Init ==
    /\ file \in [hasLast : BOOLEAN, rows : Sheets(MaxRows)]
    /\ cache = <<>>
    /\ severity_filter = {critical}
    /\ clicked = FALSE
    /\ excel_read = FALSE
    /\ loaded = <<>>
    /\ df = <<>>
    /\ site_criticals = <<>>
    /\ top_sites = <<>>
    /\ df_display = <<>>
    /\ metrics = [col1 |-> 0, col2 |-> NaN, col3 |-> 0]
    /\ top_site = <<>>
    /\ next_site = <<>>
    /\ pivot_table = [index |-> {}, columns |-> {}, cell |-> <<>>]
    /\ rendered = {}

\* A browser session opens the page: the first run, with the defaults.
Open ==
    /\ rendered = {}
    /\ script(FALSE, severity_filter)

\* st_autorefresh fires and reruns the script.
Timer ==
    /\ rendered # {}
    /\ script(FALSE, severity_filter)

\* The user changes the severity selection; the script reruns.
Select ==
    /\ rendered # {}
    /\ \E selection \in (SUBSET Severities) \ {severity_filter} :
          script(FALSE, selection)

\* The user clicks "Reload Data"; the script reruns with the button set.
Reload ==
    /\ rendered # {}
    /\ script(TRUE, severity_filter)

\* The exporter appends a later alarm of the log to the spreadsheet.
AppendRow ==
    /\ Len(file.rows) < MaxRows
    /\ \E i \in 1..Len(AlarmLog) :
          /\ file.rows # <<>> => i > LogIndex(file.rows[Len(file.rows)])
          /\ file' = [file EXCEPT !.rows = Append(@, AlarmLog[i])]
    /\ UNCHANGED <<cache, severity_filter, clicked, excel_read, loaded, df,
                   site_criticals, top_sites, df_display, metrics, top_site,
                   next_site, pivot_table, rendered>>

Next == Open \/ Timer \/ Select \/ Reload \/ AppendRow

Spec == Init /\ [][Next]_vars

----------------------------------------------------------------------------
\* Vocabulary of the properties, stated on the data rather than through the
\* pipeline's operators.

\* Some run has completed.
HasRun == rendered # {}

\* The step is a script run (the exporter's steps change the file).
RunStep == file' = file

\* A sheet cell that holds epoch milliseconds.
ValidCell(v) == v.kind = "number"

\* The positions of the sheet rows with a valid first-detection value.
ValidRows(sheet) ==
    { i \in 1..Len(sheet.rows) : ValidCell(sheet.rows[i].firstTimeDetected) }

\* What identifies a record: site, severity, count and first detection (ms).
RecordOf(r) ==
    <<r.neName, r.severity, r.numberOfOccurrences, r.firstTimeDetected.ms>>
RawRecordOf(r) ==
    <<r.neName, r.severity, r.numberOfOccurrences, r.firstTimeDetected.val>>

\* The records of a frame, in order.
Records(frame) == [i \in 1..Len(frame) |-> RecordOf(frame[i])]

\* The records of the valid rows of a sheet, in sheet order.
RECURSIVE ValidRecords(_)
ValidRecords(rows) ==
    IF rows = <<>> THEN <<>>
    ELSE (IF ValidCell(Head(rows).firstTimeDetected)
          THEN <<RawRecordOf(Head(rows))>> ELSE <<>>)
         \o ValidRecords(Tail(rows))

\* Text s, lowercased, is the lowercase text t.
LowercasesTo(s, t) ==
    /\ Len(s) = Len(t)
    /\ \A i \in 1..Len(s) :
          \/ s[i] = t[i] /\ ~(s[i] \in 65..90)
          \/ s[i] \in 65..90 /\ t[i] = s[i] + 32

\* Sum of occurrenceCount over the rows of a frame at the positions idx.
RECURSIVE CountAt(_, _)
CountAt(frame, idx) ==
    IF idx = {} THEN 0
    ELSE LET i == CHOOSE j \in idx : TRUE
         IN  frame[i].numberOfOccurrences + CountAt(frame, idx \ {i})

\* Total of a site over the filtered rows.
SiteTotal(site) == CountAt(df, { i \in 1..Len(df) : df[i].neName = site })

\* The sites of the filtered rows.
FilteredSites == { df[i].neName : i \in 1..Len(df) }

\* Calendar month of an instant within a month of the epoch.
CalendarMonth(ms) == IF ms < 0 THEN <<1969, 12>> ELSE <<1970, 1>>

\* The filtered rows of a (month, site) pair.
PairRows(month, site) ==
    { i \in 1..Len(df) : /\ df[i].neName = site
                         /\ CalendarMonth(df[i].firstTimeDetected.ms) = month }

\* The sites whose total is the maximum.
MaxSites ==
    { s \in FilteredSites : \A t \in FilteredSites : SiteTotal(t) <= SiteTotal(s) }

\* The label under which a site appears where top sites are flagged.
Label(site) == IF site \in MaxSites THEN site \o " (!)" ELSE site

\* Sum of the totals column of the site-totals table.
RECURSIVE TableSum(_)
TableSum(table) ==
    IF table = <<>> THEN 0
    ELSE Head(table).numberOfOccurrences + TableSum(Tail(table))

\* Sum of a matrix column over the months.
RECURSIVE ColumnSum(_, _, _)
ColumnSum(matrix, column, months) ==
    IF months = {} THEN 0
    ELSE LET m == CHOOSE x \in months : TRUE
         IN  matrix.cell[<<m, column>>].val
             + ColumnSum(matrix, column, months \ {m})

\* The records of the scenario: A/critical/5, B/critical/5, A/minor/100.
ScenarioLoaded ==
    /\ HasRun
    /\ [i \in 1..Len(loaded) |->
          <<loaded[i].neName, loaded[i].severity, loaded[i].numberOfOccurrences>>]
       = << <<"A", critical, 5>>, <<"B", critical, 5>>, <<"A", minor, 100>> >>

----------------------------------------------------------------------------
\* C1: a run that executes the loader's body returns exactly the sheet rows
\* whose first-detection value is a valid timestamp, in order: every record
\* retained has a non-null firstDetectedAt, none with a valid value is
\* dropped, and the size is the row count minus the rows with a missing or
\* unparseable value.
C1_LoaderKeepsValidRows ==
    [][(RunStep /\ excel_read') =>
          /\ \A i \in 1..Len(loaded') : loaded'[i].firstTimeDetected # NaT
          /\ \A i \in 1..Len(loaded') :
                loaded'[i].firstTimeDetected.kind = "Timestamp"
          /\ Records(loaded') = ValidRecords(file.rows)
          /\ Len(loaded') = Len(file.rows)
                - Cardinality((1..Len(file.rows)) \ ValidRows(file))]_vars

\* C1 witness: a load that dropped a blank and an unparseable row and kept a
\* valid one.
C1_Witness ==
    /\ HasRun /\ excel_read
    /\ Len(file.rows) = 3 /\ Len(loaded) = 1
    /\ \E i \in 1..3 : file.rows[i].firstTimeDetected = Blank
    /\ \E i \in 1..3 : file.rows[i].firstTimeDetected.kind = "text"

\* C2: with an empty selection the filter returns the loaded set unchanged;
\* otherwise exactly the records whose severity, lowercased, is a member of
\* the selection.
C2_FilterBySeverity ==
    HasRun =>
       /\ severity_filter = {} => df = loaded
       /\ severity_filter # {} =>
             df = SelectSeq(loaded, LAMBDA r :
                     \E t \in severity_filter : LowercasesTo(r.severity, t))

\* C2 witness: {critical} selected, 'Critical' and 'CRITICAL' rows returned,
\* a row of another severity left out.
C2_Witness ==
    /\ HasRun /\ severity_filter = {critical}
    /\ Len(df) < Len(loaded)
    /\ \E i \in 1..Len(df) : df[i].severity = Critical_Title
    /\ \E i \in 1..Len(df) : df[i].severity = CRITICAL_Upper

\* C3: the totals of the site-totals table, and the displayed grand total,
\* sum to the sum of occurrenceCount over all filtered rows.
C3_GrandTotal ==
    HasRun =>
       /\ TableSum(site_criticals) = CountAt(df, 1..Len(df))
       /\ metrics.col1 = CountAt(df, 1..Len(df))

\* C3 witness: two sites, one of them with two filtered rows.
C3_Witness ==
    /\ HasRun /\ Len(site_criticals) = 2 /\ Len(df) = 3
    /\ metrics.col1 > 0

\* C4: every cell of the month x site matrix holds a number: the sum of
\* occurrenceCount of the filtered rows of its (month, site) pair, 0 when
\* there is none.
C4_MatrixZeroFilled ==
    HasRun =>
       /\ pivot_table.index
             = { CalendarMonth(df[i].firstTimeDetected.ms) : i \in 1..Len(df) }
       /\ pivot_table.columns = { Label(s) : s \in FilteredSites }
       /\ \A m \in pivot_table.index : \A s \in FilteredSites :
             /\ pivot_table.cell[<<m, Label(s)>>].kind = "num"
             /\ pivot_table.cell[<<m, Label(s)>>].val = CountAt(df, PairRows(m, s))

\* C4 witness: a matrix with a cell that no filtered row falls in and a cell
\* that rows fall in.
C4_Witness ==
    /\ HasRun
    /\ \E m \in pivot_table.index : \E s \in FilteredSites :
          PairRows(m, s) = {} /\ pivot_table.cell[<<m, Label(s)>>] = Num(0)
    /\ \E m \in pivot_table.index : \E s \in FilteredSites :
          PairRows(m, s) # {} /\ pivot_table.cell[<<m, Label(s)>>].val > 0

\* C5: when the site-totals table is non-empty the flagged sites, in the
\* record table and on the matrix's site axis, are exactly the sites whose
\* total is the maximum; in the scenario A and B are flagged under
\* {critical} (grand total 10, 2 sites) and only A under the empty selection
\* (totals 105 and 5, grand total 110).
C5_AllTiedSitesFlagged ==
    (HasRun /\ site_criticals # <<>>) =>
       /\ { top_sites[i] : i \in 1..Len(top_sites) } = MaxSites
       /\ { df_display[i].neName : i \in 1..Len(df_display) }
             = { Label(s) : s \in FilteredSites }
       /\ pivot_table.columns = { Label(s) : s \in FilteredSites }
       /\ (ScenarioLoaded /\ severity_filter = {critical}) =>
             /\ MaxSites = {"A", "B"}
             /\ metrics.col1 = 10 /\ metrics.col3 = 2
       /\ (ScenarioLoaded /\ severity_filter = {}) =>
             /\ MaxSites = {"A"}
             /\ { <<site_criticals[i].neName, site_criticals[i].numberOfOccurrences>> :
                    i \in 1..Len(site_criticals) } = { <<"A", 105>>, <<"B", 5>> }
             /\ metrics.col1 = 110

\* C5 witness: the scenario under {critical}, with both tied sites flagged
\* in the record table.
C5_Witness ==
    /\ ScenarioLoaded /\ severity_filter = {critical}
    /\ Len(top_sites) = 2
    /\ { df_display[i].neName : i \in 1..Len(df_display) } = {"A (!)", "B (!)"}

\* C6: when no record is left after filtering, the run shows the notice and
\* neither computes the summary metrics nor renders the bar chart and the
\* heatmap.
C6_EmptySetOnlyNotice ==
    (HasRun /\ df = <<>>) =>
       /\ "warning" \in rendered
       /\ "metrics" \notin rendered
       /\ "bar_chart" \notin rendered
       /\ "heatmap" \notin rendered

\* C7: a loader invocation that finds the cache cleared re-reads the source;
\* one that finds a memoized record set returns it without reading, whatever
\* the source holds by then, and the set stays memoized until a clear.
C7_MemoizedUntilCleared ==
    [][RunStep =>
          /\ cache = <<>> =>
                /\ excel_read'
                /\ Records(loaded') = ValidRecords(file.rows)
          /\ cache # <<>> =>
                /\ ~excel_read'
                /\ loaded' = cache[1]
                /\ ~clicked' => cache' = cache]_vars

\* C7 witness: a run served from the cache while the sheet holds a valid row
\* the memoized set lacks.
C7_Witness ==
    /\ HasRun /\ ~excel_read /\ cache # <<>>
    /\ Len(loaded) < Cardinality(ValidRows(file))

\* C8: the site-totals table is in non-increasing order of total; the top
\* call-out is its first row, has the maximum total and is a flagged site;
\* the second call-out is shown iff the table has two sites or more, with a
\* total no greater than the top site's.
C8_RankedCallouts ==
    HasRun =>
       /\ \A i, j \in 1..Len(site_criticals) :
             i < j => site_criticals[i].numberOfOccurrences
                          >= site_criticals[j].numberOfOccurrences
       /\ site_criticals # <<>> =>
             /\ "top_site" \in rendered
             /\ top_site = <<site_criticals[1]>>
             /\ top_site[1].neName \in MaxSites
             /\ top_site[1].numberOfOccurrences = SiteTotal(top_site[1].neName)
             /\ \E i \in 1..Len(top_sites) : top_sites[i] = top_site[1].neName
       /\ ("next_site" \in rendered) <=> (Len(site_criticals) >= 2)
       /\ ("next_site" \in rendered) =>
             /\ next_site = <<site_criticals[2]>>
             /\ next_site[1].numberOfOccurrences <= top_site[1].numberOfOccurrences

\* C8 witness: three sites with distinct totals, both call-outs shown.
C8_Witness ==
    /\ HasRun /\ Len(site_criticals) = 3
    /\ "next_site" \in rendered
    /\ next_site[1].numberOfOccurrences < top_site[1].numberOfOccurrences
    /\ site_criticals[3].numberOfOccurrences < next_site[1].numberOfOccurrences

\* C9: the run started by "Reload Data" calls the loader before the cache is
\* cleared: it presents the record set memoized before it, and the run after
\* it is the first to read the sheet again.
C9_ReloadRunIsStale ==
    [][RunStep =>
          /\ (clicked' /\ cache # <<>>) =>
                /\ ~excel_read'
                /\ loaded' = cache[1]
                /\ cache' = <<>>
                /\ metrics'.col1 = TableSum(site_criticals')
                /\ \A i \in 1..Len(df') : \E j \in 1..Len(cache[1]) :
                      df'[i] = cache[1][j]
          /\ (clicked /\ HasRun) =>
                /\ excel_read'
                /\ Records(loaded') = ValidRecords(file.rows)]_vars

\* C9 witness: a reload run that showed fewer records than the sheet's valid
\* rows and left the cache cleared.
C9_Witness ==
    /\ HasRun /\ clicked /\ ~excel_read /\ cache = <<>>
    /\ Len(loaded) < Cardinality(ValidRows(file))

\* C10: the matrix's site axis, markers aside, is the set of sites of the
\* site-totals table, and each site's cells over all months sum to its
\* total in that table.
C10_ViewsAgree ==
    HasRun =>
       /\ pivot_table.columns
             = { (IF \E k \in 1..Len(top_sites) : top_sites[k] = site_criticals[i].neName
                  THEN site_criticals[i].neName \o " (!)"
                  ELSE site_criticals[i].neName) : i \in 1..Len(site_criticals) }
       /\ \A i \in 1..Len(site_criticals) :
             ColumnSum(pivot_table,
                       (IF \E k \in 1..Len(top_sites) : top_sites[k] = site_criticals[i].neName
                        THEN site_criticals[i].neName \o " (!)"
                        ELSE site_criticals[i].neName),
                       pivot_table.index)
                = site_criticals[i].numberOfOccurrences

\* C10 witness: a site with rows in two months, beside another site.
C10_Witness ==
    /\ HasRun /\ Cardinality(pivot_table.index) = 2
    /\ Len(site_criticals) = 2
    /\ \E s \in FilteredSites :
          /\ PairRows(<<1969, 12>>, s) # {}
          /\ PairRows(<<1970, 1>>, s) # {}

====
